---------------------------- MODULE Spec2Model ----------------------------
(***************************************************************************)
(* Model of v2/routes.py: the client routing blueprint.                    *)
(*                                                                         *)
(* Python strings that the code takes apart (request.host, the request     *)
(* path) are sequences of one-character strings, so that strip, split,     *)
(* lower and startswith are computed character by character.  Strings the  *)
(* code only compares or concatenates (page names, directory names) are    *)
(* TLA+ strings; Str converts the first form into the second.              *)
(***************************************************************************)
EXTENDS Integers, Sequences, FiniteSets, TLC

VARIABLES
    ROUTING_MODE,   \* module global, read from the environment at import
    _dist_dir,      \* module global, None until init_client_routes
    _pages_dir,     \* module global, None until init_client_routes
    pc,             \* "idle" | "view" | "done"
    endpoint,       \* the view function the URL map picked, "" when none
    host,           \* request.host of the request in flight
    url,            \* request path of the request in flight
    path,           \* the <path:...> argument bound by the matched rule
    calls,          \* arguments of the _serve_page calls made for this request
    response        \* what the request ended with

vars == <<ROUTING_MODE, _dist_dir, _pages_dir, pc, endpoint, host, url, path,
          calls, response>>

-----------------------------------------------------------------------------
(* Bounds and input alphabets *)

\* Longest request path, in '/'-separated pieces (a piece may be empty)
MaxSegments == 3

\* Python's None.  No character sequence and no name equals it.
None == <<"None">>

w_search   == <<"s","e","a","r","c","h">>
w_Search   == <<"S","e","a","r","c","h">>
w_timeline == <<"t","i","m","e","l","i","n","e">>
w_alice    == <<"a","l","i","c","e">>
w_v2       == <<"v","2">>
w_Admin    == <<"A","d","m","i","n">>
w_assets   == <<"a","s","s","e","t","s">>

\* Pieces a request path is built from: a static page, the same in another
\* case, a blog page, a blog name, an API prefix, an API prefix in another
\* case, the asset directory, and the empty piece, which yields '//' and a
\* trailing '/'
Pieces == {w_search, w_Search, w_timeline, w_alice, w_v2, w_Admin, w_assets, <<>>}

Domain == <<"b","d","s","m","l","r",".","c","o","m">>

\* Values of the Host header: the apex domain, a blog subdomain, the same in
\* another case with a port, reserved subdomains, a subdomain starting with
\* 'api', an empty first label, and a single label with a port
Hosts ==
    { Domain,
      w_alice \o <<".">> \o Domain,
      <<"A","l","i","c","e",".">> \o Domain \o <<":","8","0">>,
      <<"W","W","W",".">> \o Domain,
      <<"a","p","i",".">> \o Domain,
      <<"a","p","i","x",".">> \o Domain,
      <<".">> \o Domain,
      <<"l","o","c","a","l","h","o","s","t",":","5","0","0","0">> }

\* Arguments init_client_routes is called with
DistPaths == { <<"/","d">>, <<>> }

\* Values of the ROUTING_MODE environment variable
Modes == {"path", "subdomain"}

-----------------------------------------------------------------------------
(* Python string primitives *)

UPPER == <<"A","B","C","D","E","F","G","H","I","J","K","L","M",
           "N","O","P","Q","R","S","T","U","V","W","X","Y","Z">>
LOWER == <<"a","b","c","d","e","f","g","h","i","j","k","l","m",
           "n","o","p","q","r","s","t","u","v","w","x","y","z">>
ToLower == [c \in {UPPER[i] : i \in 1..26} |->
               LOWER[CHOOSE i \in 1..26 : UPPER[i] = c]]

\* str.lower() of one character
LowerChar(c) == IF c \in DOMAIN ToLower THEN ToLower[c] ELSE c

\* s.lower()
lower(s) == [i \in 1..Len(s) |-> LowerChar(s[i])]

RECURSIVE lstrip(_, _)
\* s.lstrip(ch)
lstrip(s, ch) ==
    IF s # <<>> /\ Head(s) = ch THEN lstrip(Tail(s), ch) ELSE s

RECURSIVE rstrip(_, _)
\* s.rstrip(ch)
rstrip(s, ch) ==
    IF s # <<>> /\ s[Len(s)] = ch THEN rstrip(SubSeq(s, 1, Len(s) - 1), ch) ELSE s

\* s.strip(ch)
strip(s, ch) == rstrip(lstrip(s, ch), ch)

RECURSIVE split(_, _)
\* s.split(sep): the pieces between separators, empty pieces kept;
\* ''.split(sep) is ['']
split(s, sep) ==
    IF \E i \in 1..Len(s) : s[i] = sep
    THEN LET i == CHOOSE k \in 1..Len(s) :
                     s[k] = sep /\ \A j \in 1..(k - 1) : s[j] # sep
         IN  <<SubSeq(s, 1, i - 1)>> \o split(SubSeq(s, i + 1, Len(s)), sep)
    ELSE <<s>>

\* s.startswith(prefix)
startswith(s, prefix) ==
    Len(s) >= Len(prefix) /\ SubSeq(s, 1, Len(prefix)) = prefix

RECURSIVE Str(_)
\* The string spelled by a character sequence
Str(cs) == IF cs = <<>> THEN "" ELSE Head(cs) \o Str(Tail(cs))

\* Python truthiness of a value that is None or a string
Truthy(x) == x # None /\ x # <<>>

\* os.path.join(a, b) for a relative b
os_path_join(a, b) ==
    IF a = <<>> THEN b
    ELSE IF a[Len(a)] = "/" THEN a \o b
    ELSE a \o <<"/">> \o b


-----------------------------------------------------------------------------
(* Module constants *)

STATIC_PAGES == {"search", "blogs", "home", "clear-cache"}
BLOG_PAGES == {"archive", "timeline", "following", "social"}
RESERVED_SUBDOMAINS == {"www", "api", "cdn", "static", "admin", "app"}
API_PREFIXES == {"v1", "v2", "api", "auth", "admin", "health", "metrics", "static"}

-----------------------------------------------------------------------------
(* Responses *)

NoResponse == [status |-> "none", body |-> ""]

\* abort(404)
NotFound == [status |-> "404", body |-> ""]

\* flask.send_from_directory(directory, filename): the file it is asked for
send_from_directory(directory, filename) ==
    [status |-> "file", body |-> Str(directory) \o "/" \o filename]

\* An exception escaping the view function
Raise(exc, msg) == [status |-> exc, body |-> msg]

-----------------------------------------------------------------------------
(* Helpers of the blueprint *)

\* _serve_page without the check of _pages_dir
_serve_page_Unchecked(name) == send_from_directory(_pages_dir, name \o ".html")

\* _serve_page(page_name), for a page name given as a string
_serve_page(name) ==
    IF ~Truthy(_pages_dir)
    THEN Raise("RuntimeError", "Call init_client_routes(dist_path) first")
    ELSE send_from_directory(_pages_dir, name \o ".html")

\* _is_api_path without .lower()
_is_api_path_CaseSensitive(p) ==
    IF ~Truthy(p) THEN FALSE
    ELSE Str(split(lstrip(p, "/"), "/")[1]) \in API_PREFIXES

\* _is_api_path(path)
_is_api_path(p) ==
    IF ~Truthy(p) THEN FALSE
    ELSE LET first_segment == lower(split(lstrip(p, "/"), "/")[1])
         IN  Str(first_segment) \in API_PREFIXES

\* _get_subdomain without the startswith('api') test
_get_subdomain_NoApiPrefix(h) ==
    LET parts == split(lower(split(h, ":")[1]), ".")
    IN  IF Len(parts) < 3 \/ Str(parts[1]) \in RESERVED_SUBDOMAINS
        THEN None
        ELSE parts[1]

\* _get_subdomain(), reading request.host
_get_subdomain(h) ==
    LET hostname == lower(split(h, ":")[1])
        parts == split(hostname, ".")
    IN  IF Len(parts) < 3 THEN None
        ELSE LET subdomain == parts[1]
             IN  IF Str(subdomain) \in RESERVED_SUBDOMAINS
                    \/ startswith(subdomain, <<"a","p","i">>)
                 THEN None
                 ELSE subdomain

\* parts without the 'if path else []' guard
PathParts_NoGuard(p) == split(strip(p, "/"), "/")

\* parts = path.strip('/').split('/') if path else []
PathParts(p) == IF Truthy(p) THEN split(strip(p, "/"), "/") ELSE <<>>

\* Subdomain mode that knows the blog pages only
SubdomainPage_BlogOnly(p, h) ==
    IF p = <<>>
    THEN (IF Truthy(_get_subdomain(h)) THEN "archive" ELSE "home")
    ELSE LET page == Str(split(strip(p, "/"), "/")[1])
         IN  IF page \in BLOG_PAGES THEN page ELSE "archive"

\* The page name catch_all passes to _serve_page in subdomain mode
SubdomainPage(p, h) ==
    LET parts == PathParts(p)
        subdomain == _get_subdomain(h)
    IN  IF parts = <<>>
        THEN (IF Truthy(subdomain) THEN "archive" ELSE "home")
        ELSE LET page == Str(parts[1])
             IN  IF page \in BLOG_PAGES \/ page \in STATIC_PAGES
                 THEN page
                 ELSE "archive"

\* Path mode that serves an unknown single segment under its own name
PathPage_Echo(p) ==
    LET parts == IF p = <<>> THEN <<>> ELSE split(strip(p, "/"), "/")
    IN  IF parts = <<>> THEN "home"
        ELSE IF Len(parts) = 1 THEN Str(parts[1])
        ELSE IF Str(parts[2]) \in BLOG_PAGES THEN Str(parts[2]) ELSE "archive"

\* Path mode that accepts a blog page as a single segment
PathPage_AnyPage(p) ==
    LET parts == IF p = <<>> THEN <<>> ELSE split(strip(p, "/"), "/")
    IN  IF parts = <<>> THEN "home"
        ELSE IF Len(parts) = 1
        THEN (IF Str(parts[1]) \in STATIC_PAGES \cup BLOG_PAGES
              THEN Str(parts[1]) ELSE "archive")
        ELSE IF Str(parts[2]) \in BLOG_PAGES THEN Str(parts[2]) ELSE "archive"

\* Path mode that takes the page from the last part instead of the second
PathPage_LastPart(p) ==
    LET parts == IF p = <<>> THEN <<>> ELSE split(strip(p, "/"), "/")
    IN  IF parts = <<>> THEN "home"
        ELSE IF Len(parts) = 1
        THEN (IF Str(parts[1]) \in STATIC_PAGES THEN Str(parts[1]) ELSE "archive")
        ELSE IF Str(parts[Len(parts)]) \in BLOG_PAGES
        THEN Str(parts[Len(parts)]) ELSE "archive"

\* The page name catch_all passes to _serve_page in path mode
PathPage(p) ==
    LET parts == PathParts(p)
    IN  IF parts = <<>> THEN "home"
        ELSE IF Len(parts) = 1
        THEN LET segment == Str(parts[1])
             IN  IF segment \in STATIC_PAGES THEN segment ELSE "archive"
        ELSE LET page == Str(parts[2])
             IN  IF page \in BLOG_PAGES THEN page ELSE "archive"

\* The body of catch_all(path): the _serve_page calls it makes, in order;
\* none when it aborts
Resolve(p, h, mode) ==
    IF _is_api_path(p) THEN <<>>
    ELSE IF mode = "subdomain" THEN <<SubdomainPage(p, h)>>
    ELSE <<PathPage(p)>>

-----------------------------------------------------------------------------
(* URL rules of the blueprint *)

RECURSIVE Join(_, _)
\* sep.join(pieces)
Join(pieces, sep) ==
    IF pieces = <<>> THEN <<>>
    ELSE IF Len(pieces) = 1 THEN pieces[1]
    ELSE pieces[1] \o <<sep>> \o Join(Tail(pieces), sep)

\* Request paths of at most MaxSegments pieces
PieceSeqs == UNION { [1..n -> Pieces] : n \in 0..MaxSegments }
Urls == { <<"/">> \o Join(ps, "/") : ps \in PieceSeqs }

\* A <path:...> converter binds a non-empty string that does not start
\* with '/'
PathConverterMatches(s) == s # <<>> /\ Head(s) # "/"

AssetsPrefix == <<"/">> \o w_assets \o <<"/">>

\* '/assets/<path:filename>'
AssetsRuleMatches(u) ==
    /\ startswith(u, AssetsPrefix)
    /\ PathConverterMatches(SubSeq(u, Len(AssetsPrefix) + 1, Len(u)))

\* '/' with defaults {'path': ''}
RootRuleMatches(u) == u = <<"/">>

\* '/<path:path>'
PathRuleMatches(u) == PathConverterMatches(Tail(u))

-----------------------------------------------------------------------------
(* Actions *)

Init ==
    /\ ROUTING_MODE \in Modes
    /\ _dist_dir = None
    /\ _pages_dir = None
    /\ pc = "idle"
    /\ endpoint = ""
    /\ host = <<>>
    /\ url = <<>>
    /\ path = <<>>
    /\ calls = <<>>
    /\ response = NoResponse

\* init_client_routes(dist_path)
init_client_routes(dist_path) ==
    /\ _dist_dir' = dist_path
    /\ _pages_dir' = os_path_join(os_path_join(dist_path, <<"s","r","c">>),
                                  <<"p","a","g","e","s">>)
    /\ UNCHANGED <<ROUTING_MODE, pc, endpoint, host, url, path, calls, response>>

\* A request for host h and path u arrives and the URL map picks the view
\* function: the assets rule has the longer static prefix and wins over the
\* catch-all rules; a path no rule matches reaches no view function
Dispatch(h, u) ==
    /\ host' = h
    /\ url' = u
    /\ calls' = <<>>
    /\ response' = NoResponse
    /\ IF AssetsRuleMatches(u)
       THEN /\ endpoint' = "client.assets"
            /\ path' = SubSeq(u, Len(AssetsPrefix) + 1, Len(u))
            /\ pc' = "view"
       ELSE IF RootRuleMatches(u)
       THEN /\ endpoint' = "client.catch_all"
            /\ path' = <<>>
            /\ pc' = "view"
       ELSE IF PathRuleMatches(u)
       THEN /\ endpoint' = "client.catch_all"
            /\ path' = Tail(u)
            /\ pc' = "view"
       ELSE /\ endpoint' = ""
            /\ path' = <<>>
            /\ pc' = "done"
    /\ UNCHANGED <<ROUTING_MODE, _dist_dir, _pages_dir>>

\* assets(filename)
assets ==
    /\ pc = "view"
    /\ endpoint = "client.assets"
    /\ response' = IF _dist_dir = None
                   THEN Raise("TypeError", "")
                   ELSE send_from_directory(
                            os_path_join(_dist_dir, w_assets), Str(path))
    /\ pc' = "done"
    /\ UNCHANGED <<ROUTING_MODE, _dist_dir, _pages_dir, endpoint, host, url,
                   path, calls>>

\* catch_all(path)
catch_all ==
    /\ pc = "view"
    /\ endpoint = "client.catch_all"
    /\ calls' = Resolve(path, host, ROUTING_MODE)
    /\ response' = IF calls' = <<>> THEN NotFound ELSE _serve_page(calls'[1])
    /\ pc' = "done"
    /\ UNCHANGED <<ROUTING_MODE, _dist_dir, _pages_dir, endpoint, host, url,
                   path>>

\* The response is sent; the worker is free for the next request
Finish ==
    /\ pc = "done"
    /\ pc' = "idle"
    /\ endpoint' = ""
    /\ host' = <<>>
    /\ url' = <<>>
    /\ path' = <<>>
    /\ calls' = <<>>
    /\ response' = NoResponse
    /\ UNCHANGED <<ROUTING_MODE, _dist_dir, _pages_dir>>

\* The application calls init_client_routes between requests
Configure == pc = "idle" /\ \E d \in DistPaths : init_client_routes(d)

\* A client sends a request
Receive == pc = "idle" /\ \E h \in Hosts, u \in Urls : Dispatch(h, u)

Next ==
    \/ Configure
    \/ Receive
    \/ assets
    \/ catch_all
    \/ Finish

Spec == Init /\ [][Next]_vars

-----------------------------------------------------------------------------
(* Vocabulary of the properties *)

\* catch_all has returned for the request in flight
Returned == pc = "done" /\ endpoint = "client.catch_all"

\* The request was answered by serving page p: Serve(p)
Served(p) == calls = <<p>>

\* The request was aborted with not-found and no page was served: Rejected
Rejected == calls = <<>> /\ response = NotFound

\* The non-empty segments of a path, in order
Segments(p) == SelectSeq(split(p, "/"), LAMBDA x : x # <<>>)

\* The pieces between the separators of a path whose leading and trailing
\* separators are trimmed; a repeated separator leaves an empty piece
TrimmedPieces(p) == split(strip(p, "/"), "/")

\* The first segment, compared case-insensitively, is an API prefix
ApiOwned(p) ==
    Segments(p) # <<>> /\ Str(lower(Segments(p)[1])) \in
        {"v1", "v2", "api", "auth", "admin", "health", "metrics", "static"}

StaticPages == {"search", "blogs", "home", "clear-cache"}
BlogPages == {"archive", "timeline", "following", "social"}

\* The labels of a host, port removed and lower-cased
HostLabels(h) == split(lower(split(h, ":")[1]), ".")

\* The first label of a host is reserved or starts with 'api'
ReservedHost(h) ==
    \/ Str(HostLabels(h)[1]) \in {"www", "api", "cdn", "static", "admin", "app"}
    \/ startswith(HostLabels(h)[1], <<"a","p","i">>)

-----------------------------------------------------------------------------
(* Properties *)

\* C1: in every mode and for every host, a path whose first segment,
\* compared case-insensitively, is an API prefix is rejected by catch_all
\* with not-found and no page is served, whatever the other segments are.
C1_ApiPathRejected == Returned /\ ApiOwned(path) => Rejected

\* An upper-case API prefix is rejected in subdomain mode on a blog host,
\* before the page registry is initialized
C1_Witness ==
    /\ Returned /\ Rejected
    /\ path = w_Admin \o <<"/">> \o w_timeline
    /\ ROUTING_MODE = "subdomain"
    /\ Truthy(_get_subdomain(host))
    /\ _pages_dir = None

\* C2: whenever catch_all serves a page, the page name it passes to
\* _serve_page is one of the eight known page names; a segment of the
\* request that is not one of them is never used as the page name.
C2_KnownPageOnly ==
    Returned =>
        /\ Len(calls) <= 1
        /\ \A i \in 1..Len(calls) : calls[i] \in StaticPages \cup BlogPages

\* A request whose only segment is not a page name is served the archive
C2_Witness ==
    /\ Returned /\ path = w_alice /\ Served("archive")

\* C3 as stated: no request is handled by catch_all while the page registry
\* is uninitialized, and the missing initialization never surfaces as a
\* per-request error.
C3_FatalAtStartup ==
    Returned => _pages_dir # None /\ response.status # "RuntimeError"

\* C3 amended: nothing fails at startup; catch_all handles requests in the
\* uninitialized state, and a request ends in the RuntimeError of
\* _serve_page exactly when the registry is uninitialized and catch_all
\* resolved a page (API paths are still rejected with not-found).
C3_PerRequestError ==
    Returned =>
        (response.status = "RuntimeError" <=> (_pages_dir = None /\ ~ApiOwned(path)))

\* A request fails with the RuntimeError in the uninitialized state
C3_Witness ==
    /\ Returned /\ _pages_dir = None
    /\ response.status = "RuntimeError" /\ Served("home")

\* C4 as stated: in path mode a single-segment path s is served as s when s
\* is a static page and as archive for every other s.
C4_SingleSegment ==
    Returned /\ ROUTING_MODE = "path" /\ Len(Segments(path)) = 1 =>
        LET s == Str(Segments(path)[1])
        IN  Served(IF s \in StaticPages THEN s ELSE "archive")

\* C4 amended: in path mode a single-segment path s is rejected when s,
\* lower-cased, is an API prefix; otherwise it is served as s when s is a
\* static page and as archive when it is not.
C4_SingleSegmentUnlessApi ==
    Returned /\ ROUTING_MODE = "path" /\ Len(Segments(path)) = 1 =>
        LET s == Str(Segments(path)[1])
        IN  IF ApiOwned(path) THEN Rejected
            ELSE Served(IF s \in StaticPages THEN s ELSE "archive")

\* A blog page name alone is taken for a blog name
C4_Witness ==
    /\ Returned /\ ROUTING_MODE = "path"
    /\ path = w_timeline /\ Served("archive")

C6_RootByHost ==
    Returned /\ ROUTING_MODE = "subdomain" /\ Segments(path) = <<>> =>
        Served(IF Len(HostLabels(host)) >= 3 /\ ~ReservedHost(host)
               THEN "archive" ELSE "home")

\* C6 amended: as stated, with the further condition for archive that the
\* first label is not empty.
C6_RootByNonEmptyLabel ==
    Returned /\ ROUTING_MODE = "subdomain" /\ Segments(path) = <<>> =>
        Served(IF /\ Len(HostLabels(host)) >= 3
                  /\ ~ReservedHost(host)
                  /\ HostLabels(host)[1] # <<>>
               THEN "archive" ELSE "home")

\* The root of a blog host given in upper case and with a port
C6_Witness ==
    /\ Returned /\ ROUTING_MODE = "subdomain" /\ path = <<>>
    /\ host = <<"A","l","i","c","e",".">> \o Domain \o <<":","8","0">>
    /\ Served("archive")

\* C7: in path mode, for every host, the request path '/' and the empty
\* path argument, which have no segments, are served as home.
C7_PathRootIsHome ==
    Returned /\ ROUTING_MODE = "path" /\ (url = <<"/">> \/ Segments(path) = <<>>) =>
        Served("home")

\* The root of a blog host in path mode
C7_Witness ==
    /\ Returned /\ ROUTING_MODE = "path" /\ url = <<"/">>
    /\ host = w_alice \o <<".">> \o Domain
    /\ Served("home")

\* C8: a path resolves to the same result as its lower-cased form.
C8_CaseInsensitive ==
    Returned =>
        calls = Resolve(lower(path), host, ROUTING_MODE)

\* C9 as stated: in subdomain mode a path with at least one segment is
\* served as its first segment when that is a blog page or a static page
\* and as archive otherwise, whatever the host and the later segments.
C9_FirstSegment ==
    Returned /\ ROUTING_MODE = "subdomain" /\ Segments(path) # <<>> =>
        LET page == Str(Segments(path)[1])
        IN  Served(IF page \in BlogPages \cup StaticPages THEN page ELSE "archive")

\* C9 amended: in subdomain mode a path with at least one segment is
\* rejected when its first segment, lower-cased, is an API prefix;
\* otherwise it is served as its first segment when that is a blog page or
\* a static page and as archive when it is not.
C9_FirstSegmentUnlessApi ==
    Returned /\ ROUTING_MODE = "subdomain" /\ Segments(path) # <<>> =>
        LET page == Str(Segments(path)[1])
        IN  IF ApiOwned(path) THEN Rejected
            ELSE Served(IF page \in BlogPages \cup StaticPages
                        THEN page ELSE "archive")

\* A static page is served on the apex host whatever follows it
C9_Witness ==
    /\ Returned /\ ROUTING_MODE = "subdomain" /\ host = Domain
    /\ path = w_search \o <<"/">> \o w_timeline
    /\ Served("search")

\* C10: a path resolves to the same result as the path made of its
\* non-empty segments joined by single separators.
C10_SeparatorsIgnored ==
    Returned =>
        calls = Resolve(Join(Segments(path), "/"), host, ROUTING_MODE)

=============================================================================
